---------------------------- MODULE Spec2Model ----------------------------
(***************************************************************************)
(* A model of the printable map creator (osm20.py and its predecessor      *)
(* osm19.py): the ring traversal of fetch_map, which pans a map viewer and *)
(* captures one tile per grid position, and assemble_image_details, which  *)
(* lists the cropped tiles, parses each grid position from its file name   *)
(* and pastes the tiles on one canvas.                                     *)
(*                                                                         *)
(* File names are sequences of character codes, so that formatting,        *)
(* sorting and parsing are computed as Python computes them.               *)
(***************************************************************************)
EXTENDS Integers, Sequences, FiniteSets, TLC

VARIABLES
    prog,               \* which program runs: "osm20" or "osm19"
    steps,              \* argument steps: the ring count N
    movement_pixels,    \* argument movement_pixels: the pan distance
    viewport,           \* <<window.innerWidth, window.innerHeight>>
    crop_size,          \* <<width, height>> crop_image returns for a capture
    pc,                 \* "fetch", "assemble", "paste", "finished", "crashed"
    outcome,            \* "running", or how the run ended
    x, y,               \* fetch_map: the grid position
    seen_positions,     \* fetch_map (osm20): positions already panned from
    centering_i,        \* fetch_map (osm20): centering rounds done
    step,               \* fetch_map: the ring being walked, 1..steps
    dir_i,              \* fetch_map: index into directions, 1..4
    sub_step,           \* fetch_map: pans done in this direction of this ring
    i,                  \* fetch_map (osm19): the screenshot counter
    cropped_image_size, \* fetch_map: <<>> while unassigned, else <<w, h>>
    cropped_dir,        \* the files of cropped_dir: records [name, size]
    events,             \* history: the calls made to the browser and to PIL
    images,             \* assembler: the file names kept, in list order
    positions,          \* assembler: the positions parsed, in list order
    canvas,             \* assembler: <<>> or <<size_x, size_y>> of the canvas
    paste_i,            \* assembler: index of the next tile to paste
    pastes,             \* history: the paste calls made, in order
    output,             \* <<>> or <<width, height>> of the saved image
    samples,            \* the canvas pixels observed, as offsets from its centre
    pixels              \* <<>> or the content of the observed canvas pixels

vars == <<prog, steps, movement_pixels, viewport, crop_size, pc, outcome, x, y,
          seen_positions, centering_i, step, dir_i, sub_step, i,
          cropped_image_size, cropped_dir, events, images, positions, canvas,
          paste_i, pastes, output, samples, pixels>>

inputVars == <<prog, steps, movement_pixels, viewport, crop_size, samples>>
fetchVars == <<x, y, seen_positions, centering_i, step, dir_i, sub_step, i,
               cropped_image_size, events>>
asmVars == <<images, positions, canvas, paste_i, pastes, output, pixels>>

-----------------------------------------------------------------------------
(* Bounds of the model *)

\* the largest ring count tried
MaxSteps == 3

\* the largest absolute grid coordinate whose file name is tried
MaxCoord == 12

\* the screenshot numbers of osm19 whose file name is tried
ShotNumbers == {0, 7, 10, 123}

\* the canvas pixels observed lie at most this far from the canvas centre
SampleRadius == 6

\* the pan distances tried: negative, zero, odd, and the value main() sets
MovementPixels == {-2, 0, 3, 800}

\* the viewports tried: one the 800 px drag fits in, one it does not
Viewports == {<<1920, 1700>>, <<1000, 600>>}

\* the tile sizes tried (width, height)
TileSizes == {<<400, 300>>, <<5, 8>>}

Programs == {"osm20", "osm19"}

\* file names tried beside the names fetch_map writes
notes_txt == <<110, 111, 116, 101, 115, 46, 116, 120, 116>>         \* "notes.txt"
screenshot_a_b_png ==                                  \* "screenshot_a_b.png"
    <<115, 99, 114, 101, 101, 110, 115, 104, 111, 116, 95, 97, 95, 98, 46, 112, 110, 103>>
screenshot_1_x_png ==                                  \* "screenshot_1_x.png"
    <<115, 99, 114, 101, 101, 110, 115, 104, 111, 116, 95, 49, 95, 120, 46, 112, 110, 103>>
map_png == <<109, 97, 112, 46, 112, 110, 103>>                         \* "map.png"
screenshot_1_png ==                                      \* "screenshot_1.png"
    <<115, 99, 114, 101, 101, 110, 115, 104, 111, 116, 95, 49, 46, 112, 110, 103>>

\* names that are no .png file, or whose coordinate fields are no integers
OddNames == {notes_txt, screenshot_a_b_png, screenshot_1_x_png}

\* names with fewer fields than a tile name
ShortNames == {map_png, screenshot_1_png}

-----------------------------------------------------------------------------
(* Python helpers *)

Max(a, b) == IF a >= b THEN a ELSE b
Min(a, b) == IF a <= b THEN a ELSE b

\* str(n) of an int: a minus sign for a negative number, then decimal digits
RECURSIVE StrNat(_)
StrNat(n) == IF n < 10 THEN <<48 + n>>
             ELSE StrNat(n \div 10) \o <<48 + (n % 10)>>

\* a slip: the sign of a negative coordinate lost
Str_NoSign(n) == IF n < 0 THEN StrNat(-n) ELSE StrNat(n)

Str(n) == IF n < 0 THEN <<45>> \o StrNat(-n) ELSE StrNat(n)

\* the literals of the file names
screenshot_ == <<115, 99, 114, 101, 101, 110, 115, 104, 111, 116, 95>>
dot_png == <<46, 112, 110, 103>>

\* f"screenshot_{x}_{y}.png"
ScreenshotName20(px, py) == screenshot_ \o Str(px) \o <<95>> \o Str(py) \o dot_png

\* f"screenshot_#{i}_{x}_{y}.png"
ScreenshotName19(n, px, py) ==
    screenshot_ \o <<35>> \o Str(n) \o <<95>> \o Str(px) \o <<95>> \o Str(py) \o dot_png


-----------------------------------------------------------------------------
(* The history of calls: one record shape for every call *)

Ev(op, phase, ring, at, dir, dist, move, name, secs) ==
    [op |-> op, phase |-> phase, ring |-> ring, at |-> at, dir |-> dir,
     dist |-> dist, move |-> move, name |-> name, secs |-> secs]

\* osm20 main(): pan_wait_seconds = 5, the wait after each pan
pan_wait_seconds == 5

\* osm19 main(): scroll_wait_seconds = 6, the wait after each pan
scroll_wait_seconds == 6

\* the argument fetch_map hands to wait
WaitSeconds == IF prog = "osm20" THEN pan_wait_seconds ELSE scroll_wait_seconds

\* wait(seconds): one time.sleep(1) for each value of range(seconds); the
\* call returns when the last one has returned
Slept(seconds) == Max(0, seconds)

\* take_screenshot(driver, screenshot_filename), then crop_image(...)
CaptureEvents(ring, at, name) ==
    << Ev("screenshot", "ring", ring, at, <<0, 0>>, 0, <<0, 0>>, name, 0),
       Ev("crop", "ring", ring, at, <<0, 0>>, 0, <<0, 0>>, name, 0) >>

\* the drag of one pan: the end point is clamped to the viewport, and the
\* mouse is moved by the difference between the end point and the centre
DragOffset(center, d, dist, size) == Max(0, Min(size, center + (d * dist))) - center

\* a slip: the pan returns as soon as the mouse button is released
PanWithMouse_NoWait(phase, ring, at, d, dist) ==
    LET viewport_width == viewport[1]
        viewport_height == viewport[2]
        center_x == viewport_width \div 2
        center_y == viewport_height \div 2
        move_mouse_x == DragOffset(center_x, d[1], dist, viewport_width)
        move_mouse_y == DragOffset(center_y, d[2], dist, viewport_height)
    IN  << Ev("drag", phase, ring, at, d, dist, <<move_mouse_x, move_mouse_y>>, <<>>, 0) >>

\* move_mouse_to_center_of_viewport, then pan_with_mouse: the drag and the wait
PanWithMouse(phase, ring, at, d, dist) ==
    LET viewport_width == viewport[1]
        viewport_height == viewport[2]
        center_x == viewport_width \div 2
        center_y == viewport_height \div 2
        move_mouse_x == DragOffset(center_x, d[1], dist, viewport_width)
        move_mouse_y == DragOffset(center_y, d[2], dist, viewport_height)
    IN  << Ev("drag", phase, ring, at, d, dist, <<move_mouse_x, move_mouse_y>>, <<>>, 0),
           Ev("wait", phase, ring, at, d, dist, <<0, 0>>, <<>>, Slept(WaitSeconds)) >>

\* cropped_img.save(cropped_filename): the file is created or overwritten
SaveFile(dir, name, size) ==
    {f \in dir : f.name # name} \cup {[name |-> name, size |-> size]}

-----------------------------------------------------------------------------
(* fetch_map *)

\* a slip: the ring walked the other way round (up, left, down, right)
directions_Anticlockwise == << <<0, -1>>, <<-1, 0>>, <<0, 1>>, <<1, 0>> >>

\* a slip: the sign of left lost, so that the fourth side pans right again
directions_LeftAsRight == << <<0, -1>>, <<1, 0>>, <<0, 1>>, <<1, 0>> >>

\* directions, in the order the ring pass iterates them: up, right, down, left
directions == << <<0, -1>>, <<1, 0>>, <<0, 1>>, <<-1, 0>> >>

direction_down == <<0, 1>>
direction_right == <<1, 0>>

\* a slip: one centering round whatever the ring count
CenteringRounds_Once(n) == IF n > 0 THEN 1 ELSE 0

\* for _ in range(steps): the number of centering rounds
CenteringRounds(n) == n

\* a slip: range(step + 1)
SubSteps_OffByOne(ring) == ring + 1

\* for sub_step in range(step): the number of pans per direction in ring step
SubSteps(ring) == ring

\* a slip: the membership test dropped
NotSeen_Always(pos, seen) == TRUE

\* if (x, y) not in seen_positions
NotSeen(pos, seen) == pos \notin seen

\* the loop counters after one pass of the innermost loop body
NextCounters ==
    IF sub_step + 1 < SubSteps(step)
    THEN <<step, dir_i, sub_step + 1>>
    ELSE IF dir_i < Len(directions)
         THEN <<step, dir_i + 1, 0>>
         ELSE <<step + 1, 1, 0>>

\* a slip: the centering pans counted as grid steps (x += dx, y += dy)
CenteringStep_Moves ==
    /\ prog = "osm20"
    /\ pc = "fetch"
    /\ centering_i < CenteringRounds(steps)
    /\ events' = events
            \o PanWithMouse("centering", 0, <<x, y>>, direction_down, movement_pixels \div 2)
            \o PanWithMouse("centering", 0, <<x, y>>, direction_right, movement_pixels \div 2)
    /\ centering_i' = centering_i + 1
    /\ x' = x + direction_down[1] + direction_right[1]
    /\ y' = y + direction_down[2] + direction_right[2]
    /\ UNCHANGED <<inputVars, pc, outcome, seen_positions, step, dir_i,
                   sub_step, i, cropped_image_size, cropped_dir, asmVars>>

\* osm20: one round of the centering loop: half a step down, half a step right
CenteringStep ==
    /\ prog = "osm20"
    /\ pc = "fetch"
    /\ centering_i < CenteringRounds(steps)
    /\ events' = events
            \o PanWithMouse("centering", 0, <<x, y>>, direction_down, movement_pixels \div 2)
            \o PanWithMouse("centering", 0, <<x, y>>, direction_right, movement_pixels \div 2)
    /\ centering_i' = centering_i + 1
    /\ UNCHANGED <<inputVars, pc, outcome, x, y, seen_positions, step, dir_i,
                   sub_step, i, cropped_image_size, cropped_dir, asmVars>>

\* osm20: one pass of the innermost loop body: capture unless seen, then pan
RingStep20 ==
    /\ prog = "osm20"
    /\ pc = "fetch"
    /\ centering_i >= CenteringRounds(steps)
    /\ step <= steps
    /\ LET d == directions[dir_i]
           pos == <<x, y>>
           capture == NotSeen(pos, seen_positions)
           name == ScreenshotName20(x, y)
           next == NextCounters
       IN  /\ events' = events
                  \o (IF capture THEN CaptureEvents(step, pos, name) ELSE <<>>)
                  \o PanWithMouse("ring", step, pos, d, movement_pixels)
           /\ cropped_dir' = IF capture THEN SaveFile(cropped_dir, name, crop_size)
                             ELSE cropped_dir
           /\ cropped_image_size' = IF capture THEN crop_size ELSE cropped_image_size
           /\ seen_positions' = seen_positions \cup {pos}
           /\ x' = x + d[1]
           /\ y' = y + d[2]
           /\ step' = next[1]
           /\ dir_i' = next[2]
           /\ sub_step' = next[3]
    /\ UNCHANGED <<inputVars, pc, outcome, centering_i, i, asmVars>>

\* osm19: one pass of the innermost loop body: always capture, then pan
RingStep19 ==
    /\ prog = "osm19"
    /\ pc = "fetch"
    /\ step <= steps
    /\ LET d == directions[dir_i]
           pos == <<x, y>>
           name == ScreenshotName19(i, x, y)
           next == NextCounters
       IN  /\ events' = events
                  \o CaptureEvents(step, pos, name)
                  \o PanWithMouse("ring", step, pos, d, movement_pixels)
           /\ cropped_dir' = SaveFile(cropped_dir, name, crop_size)
           /\ cropped_image_size' = crop_size
           /\ x' = x + d[1]
           /\ y' = y + d[2]
           /\ i' = i + 1
           /\ step' = next[1]
           /\ dir_i' = next[2]
           /\ sub_step' = next[3]
    /\ UNCHANGED <<inputVars, pc, outcome, seen_positions, centering_i, asmVars>>

\* return cropped_image_size: the name is unbound when no capture was taken;
\* main() then goes on to assemble_big_map
FetchReturn ==
    /\ pc = "fetch"
    /\ prog = "osm20" => centering_i >= CenteringRounds(steps)
    /\ step > steps
    /\ IF cropped_image_size = <<>>
       THEN /\ pc' = "crashed"
            /\ outcome' = "UnboundLocalError"
       ELSE /\ pc' = "assemble"
            /\ outcome' = outcome
    /\ UNCHANGED <<inputVars, fetchVars, cropped_dir, asmVars>>

-----------------------------------------------------------------------------
(* Python string helpers of assemble_image_details *)

\* s.endswith(suffix)
EndsWith(s, suffix) ==
    /\ Len(s) >= Len(suffix)
    /\ SubSeq(s, Len(s) - Len(suffix) + 1, Len(s)) = suffix

\* s.replace(sub, ""): every occurrence is removed, scanning from the left
RECURSIVE RemoveAll(_, _)
RemoveAll(s, sub) ==
    IF Len(s) < Len(sub) THEN s
    ELSE IF SubSeq(s, 1, Len(sub)) = sub
         THEN RemoveAll(SubSeq(s, Len(sub) + 1, Len(s)), sub)
         ELSE <<s[1]>> \o RemoveAll(Tail(s), sub)

\* s.split(sep) for a one-character separator: always at least one part
RECURSIVE Split(_, _)
Split(s, sep) ==
    IF \A k \in 1..Len(s) : s[k] # sep THEN <<s>>
    ELSE LET first == CHOOSE k \in 1..Len(s) :
                          /\ s[k] = sep
                          /\ \A j \in 1..(k - 1) : s[j] # sep
         IN  <<SubSeq(s, 1, first - 1)>> \o Split(SubSeq(s, first + 1, Len(s)), sep)

IsSpace(c) == c = 32 \/ c \in 9..13
IsDigit(c) == c \in 48..57

\* s.strip()
RECURSIVE Strip(_)
Strip(s) ==
    IF s = <<>> THEN s
    ELSE IF IsSpace(s[1]) THEN Strip(Tail(s))
    ELSE IF IsSpace(s[Len(s)]) THEN Strip(SubSeq(s, 1, Len(s) - 1))
    ELSE s

\* the digits of an int literal, without its sign
Unsigned(s) == IF s # <<>> /\ s[1] \in {43, 45} THEN Tail(s) ELSE s

\* int(s) succeeds: optional blanks around an optional sign and decimal digits
IsIntLiteral(s) ==
    LET digits == Unsigned(Strip(s))
    IN  /\ digits # <<>>
        /\ \A k \in 1..Len(digits) : IsDigit(digits[k])

RECURSIVE DigitsValue(_)
DigitsValue(digits) ==
    IF digits = <<>> THEN 0
    ELSE 10 * DigitsValue(SubSeq(digits, 1, Len(digits) - 1)) + (digits[Len(digits)] - 48)

\* int(s) of a string int(s) accepts
IntValue(s) ==
    LET t == Strip(s)
    IN  IF t[1] = 45 THEN 0 - DigitsValue(Unsigned(t)) ELSE DigitsValue(Unsigned(t))

\* a < b for Python strings: by code point, a proper prefix is smaller
RECURSIVE StrLess(_, _)
StrLess(a, b) ==
    IF b = <<>> THEN FALSE
    ELSE IF a = <<>> THEN TRUE
    ELSE IF a[1] # b[1] THEN a[1] < b[1]
    ELSE StrLess(Tail(a), Tail(b))

\* a slip: sorted(..., reverse=True)
First_Last(S) == CHOOSE a \in S : \A b \in S \ {a} : StrLess(b, a)

\* the element sorted() puts first
First(S) == CHOOSE a \in S : \A b \in S \ {a} : StrLess(a, b)

\* sorted(os.listdir(cropped_dir)): the file names in ascending order
RECURSIVE Sorted(_)
Sorted(S) ==
    IF S = {} THEN <<>>
    ELSE LET a == First(S) IN <<a>> \o Sorted(S \ {a})

-----------------------------------------------------------------------------
(* assemble_image_details *)

\* the fixed margin osm20 adds to the canvas in each axis
CanvasMargin == 6000

\* x, y = int(parts[ix]), int(parts[iy]) inside try / except ValueError:
\* an index past the end of parts raises IndexError, which is not caught
ParseName(filename, ix, iy) ==
    LET parts == Split(RemoveAll(filename, dot_png), 95)
    IN  IF Len(parts) < ix THEN [status |-> "IndexError", pos |-> <<>>]
        ELSE IF ~IsIntLiteral(parts[ix]) THEN [status |-> "ValueError", pos |-> <<>>]
        ELSE IF Len(parts) < iy THEN [status |-> "IndexError", pos |-> <<>>]
        ELSE IF ~IsIntLiteral(parts[iy]) THEN [status |-> "ValueError", pos |-> <<>>]
        ELSE [status |-> "ok", pos |-> <<IntValue(parts[ix]), IntValue(parts[iy])>>]

\* osm20: int(parts[1]), int(parts[2]), counting parts from 0
ParseName20(filename) == ParseName(filename, 2, 3)

\* osm19: int(parts[2]), int(parts[3]), counting parts from 0
ParseName19(filename) == ParseName(filename, 3, 4)

ParseFor(p, filename) == IF p = "osm20" THEN ParseName20(filename) ELSE ParseName19(filename)

\* the loop over cropped_files: the lists it has built when it ends, or the
\* exception that ends it
RECURSIVE CollectFiles(_, _, _, _)
CollectFiles(p, files, imgs, poss) ==
    IF files = <<>> THEN [status |-> "ok", images |-> imgs, positions |-> poss]
    ELSE LET filename == Head(files)
             parsed == ParseFor(p, filename)
         IN  IF ~EndsWith(filename, dot_png)
             THEN CollectFiles(p, Tail(files), imgs, poss)
             ELSE IF parsed.status = "IndexError"
             THEN [status |-> "IndexError", images |-> imgs, positions |-> poss]
             ELSE IF parsed.status = "ValueError"
             THEN CollectFiles(p, Tail(files), imgs, poss)
             ELSE CollectFiles(p, Tail(files), Append(imgs, filename),
                               Append(poss, parsed.pos))

\* osm20: the size of the canvas
CanvasSize20(size) ==
    << size[1] + (movement_pixels * steps * 2) + CanvasMargin,
       size[2] + (movement_pixels * steps * 2) + CanvasMargin >>

\* osm19: the size of the canvas
CanvasSize19(size) ==
    << size[1] + (movement_pixels * steps * 2),
       size[2] + (movement_pixels * steps * 2) >>

\* a slip: the halving dropped
Center_Whole(size) == size

\* center_x = assembled_image_size_x // 2, and the same for y
Center(size) == size \div 2

\* a slip: the tile's height used for its width, as osm19 does
XOffset20_HeightForWidth(center_x, px, width, height) ==
    center_x - (px * movement_pixels) - (height \div 2)

\* osm20: the paste offsets of a tile at (px, py) of size width x height
XOffset20(center_x, px, width, height) ==
    center_x - (px * movement_pixels) - (width \div 2)
YOffset20(center_y, py, width, height) ==
    center_y - (py * movement_pixels) - (height \div 2)

\* a slip: the sign of the grid displacement turned
XOffset19_Plus(center_x, px, width, height) ==
    center_x + (px * movement_pixels) - (height \div 2)

\* osm19: the paste offsets of a tile at (px, py) of size width x height
XOffset19(center_x, px, width, height) ==
    center_x - (px * movement_pixels) - (height \div 2)
YOffset19(center_y, py, width, height) ==
    center_y - (py * movement_pixels) - (width \div 2)

\* Image.open(img).size
ImageSize(name) == (CHOOSE f \in cropped_dir : f.name = name).size

\* a slip: the test for an empty list dropped
NothingToAssemble_Never(poss) == FALSE

\* if not positions
NothingToAssemble(poss) == poss = <<>>

\* a pixel of Image.new('RGBA', size): transparent, of no tile
EmptyPixel == <<>>

\* the observed pixel at offset s from the centre of a canvas of this size
PixelAt(size, s) == <<Center(size[1]) + s[1], Center(size[2]) + s[2]>>

\* the pixel lies on the canvas
OnCanvas(size, q) == q[1] \in 0..(size[1] - 1) /\ q[2] \in 0..(size[2] - 1)

\* a slip: the tile pasted with itself as mask over what is there, so that
\* content already on the canvas stays
PastePixel_KeepOld(old, new) == IF old = EmptyPixel THEN new ELSE old

\* paste without a mask: the pixel of the tile replaces the pixel of the canvas
PastePixel(old, new) == new

\* assembled_image.paste(image, (x_offset, y_offset)) on the observed pixels:
\* the part of the tile that lies on the canvas is copied, pixel by pixel
PasteInto(pix, name, offset, size) ==
    [s \in DOMAIN pix |->
        LET q == PixelAt(canvas, s)
            u == q[1] - offset[1]
            v == q[2] - offset[2]
        IN  IF OnCanvas(canvas, q) /\ u \in 0..(size[1] - 1) /\ v \in 0..(size[2] - 1)
            THEN PastePixel(pix[s], <<name, u, v>>)
            ELSE pix[s]]

\* the start of assemble_image_details, up to the paste loop: list and sort
\* the directory, parse the names, stop when nothing is left, size the canvas
Collect(p) ==
    /\ prog = p
    /\ pc = "assemble"
    /\ LET cropped_files == Sorted({f.name : f \in cropped_dir})
           got == CollectFiles(p, cropped_files, <<>>, <<>>)
           size == IF p = "osm20" THEN CanvasSize20(cropped_image_size)
                   ELSE CanvasSize19(cropped_image_size)
       IN  IF got.status # "ok"
           THEN /\ pc' = "crashed"
                /\ outcome' = got.status
                /\ UNCHANGED <<images, positions, canvas, pixels>>
           ELSE /\ images' = got.images
                /\ positions' = got.positions
                /\ IF NothingToAssemble(got.positions)
                   THEN /\ pc' = "finished"
                        /\ outcome' = "no valid images"
                        /\ UNCHANGED <<canvas, pixels>>
                   ELSE IF size[1] < 0 \/ size[2] < 0
                   THEN /\ pc' = "crashed"
                        /\ outcome' = "ValueError"
                        /\ UNCHANGED <<canvas, pixels>>
                   ELSE /\ pc' = "paste"
                        /\ outcome' = outcome
                        /\ canvas' = size
                        /\ pixels' = [s \in samples |-> EmptyPixel]
    /\ paste_i' = 1
    /\ UNCHANGED <<inputVars, fetchVars, cropped_dir, pastes, output>>

Collect20 == Collect("osm20")
Collect19 == Collect("osm19")

\* one pass of the paste loop
Paste(p) ==
    /\ prog = p
    /\ pc = "paste"
    /\ paste_i <= Len(images)
    /\ LET img == images[paste_i]
           pos == positions[paste_i]
           size == ImageSize(img)
           width == size[1]
           height == size[2]
           center_x == Center(canvas[1])
           center_y == Center(canvas[2])
           x_offset == IF p = "osm20" THEN XOffset20(center_x, pos[1], width, height)
                       ELSE XOffset19(center_x, pos[1], width, height)
           y_offset == IF p = "osm20" THEN YOffset20(center_y, pos[2], width, height)
                       ELSE YOffset19(center_y, pos[2], width, height)
       IN  /\ pastes' = Append(pastes, [name |-> img, pos |-> pos, size |-> size,
                                        offset |-> <<x_offset, y_offset>>])
           /\ pixels' = PasteInto(pixels, img, <<x_offset, y_offset>>, size)
    /\ paste_i' = paste_i + 1
    /\ UNCHANGED <<inputVars, pc, outcome, fetchVars, cropped_dir, images,
                   positions, canvas, output>>

Paste20 == Paste("osm20")
Paste19 == Paste("osm19")

\* after the loop: assembled_image.save(output_filename)
Save ==
    /\ pc = "paste"
    /\ paste_i > Len(images)
    /\ output' = canvas
    /\ pc' = "finished"
    /\ outcome' = "saved"
    /\ UNCHANGED <<inputVars, fetchVars, cropped_dir, images, positions, canvas,
                   paste_i, pastes, pixels>>

-----------------------------------------------------------------------------
(* The runs *)

\* main(): fetch_map starts on an empty, freshly created directory
Init ==
    /\ prog \in Programs
    /\ steps \in 0..MaxSteps
    /\ movement_pixels \in MovementPixels
    /\ viewport \in Viewports
    /\ crop_size \in TileSizes
    /\ pc = "fetch"
    /\ outcome = "running"
    /\ x = 0
    /\ y = 0
    /\ seen_positions = {}
    /\ centering_i = 0
    /\ step = 1
    /\ dir_i = 1
    /\ sub_step = 0
    /\ i = 0
    /\ cropped_image_size = <<>>
    /\ cropped_dir = {}
    /\ events = <<>>
    /\ images = <<>>
    /\ positions = <<>>
    /\ canvas = <<>>
    /\ paste_i = 1
    /\ pastes = <<>>
    /\ output = <<>>
    /\ samples = {<<0, 0>>}
    /\ pixels = <<>>

Next ==
    \/ CenteringStep
    \/ RingStep20
    \/ RingStep19
    \/ FetchReturn
    \/ Collect20
    \/ Collect19
    \/ Paste20
    \/ Paste19
    \/ Save

Spec == Init /\ [][Next]_vars

\* a call of assemble_image_details on a directory that holds one or two
\* tiles at any positions, of any sizes
AsmInit ==
    /\ prog \in Programs
    /\ steps \in 0..MaxSteps
    /\ movement_pixels \in MovementPixels
    /\ viewport = <<1920, 1700>>
    /\ crop_size \in TileSizes
    /\ pc = "assemble"
    /\ outcome = "running"
    /\ x = 0
    /\ y = 0
    /\ seen_positions = {}
    /\ centering_i = 0
    /\ step = 1
    /\ dir_i = 1
    /\ sub_step = 0
    /\ i = 0
    /\ cropped_image_size = crop_size
    /\ \E px \in -MaxSteps..MaxSteps, py \in -MaxSteps..MaxSteps,
          d \in {<<0, 0>>, <<1, 0>>, <<0, 1>>}, s1 \in TileSizes, s2 \in TileSizes :
            cropped_dir =
                IF prog = "osm20"
                THEN {[name |-> ScreenshotName20(px, py), size |-> s1],
                      [name |-> ScreenshotName20(px + d[1], py + d[2]), size |-> s2]}
                ELSE {[name |-> ScreenshotName19(0, px, py), size |-> s1],
                      [name |-> ScreenshotName19(1, px + d[1], py + d[2]), size |-> s2]}
    /\ events = <<>>
    /\ images = <<>>
    /\ positions = <<>>
    /\ canvas = <<>>
    /\ paste_i = 1
    /\ pastes = <<>>
    /\ output = <<>>
    /\ samples = {<<0, 0>>}
    /\ pixels = <<>>

\* the tile names fetch_map writes that the directories tried may hold
TileNames(p) ==
    IF p = "osm20" THEN {ScreenshotName20(0, 0), ScreenshotName20(1, -1)}
    ELSE {ScreenshotName19(0, 0, 0), ScreenshotName19(1, 1, -1)}

\* a call of assemble_image_details on a directory that holds any of the
\* names tried: none, tiles, other files, .png files with other names
DirInit ==
    /\ prog \in Programs
    /\ steps \in 0..MaxSteps
    /\ movement_pixels \in MovementPixels
    /\ viewport = <<1920, 1700>>
    /\ crop_size = <<400, 300>>
    /\ pc = "assemble"
    /\ outcome = "running"
    /\ x = 0
    /\ y = 0
    /\ seen_positions = {}
    /\ centering_i = 0
    /\ step = 1
    /\ dir_i = 1
    /\ sub_step = 0
    /\ i = 0
    /\ cropped_image_size = crop_size
    /\ \E names \in SUBSET (TileNames(prog) \cup OddNames \cup ShortNames) :
          cropped_dir = {[name |-> n, size |-> crop_size] : n \in names}
    /\ events = <<>>
    /\ images = <<>>
    /\ positions = <<>>
    /\ canvas = <<>>
    /\ paste_i = 1
    /\ pastes = <<>>
    /\ output = <<>>
    /\ samples = {<<0, 0>>}
    /\ pixels = <<>>

\* a call of assemble_image_details on a directory that holds the one file
\* fetch_map writes for a capture at the grid position (x, y)
NameInit ==
    /\ prog \in Programs
    /\ steps = 1
    /\ movement_pixels = 800
    /\ viewport = <<1920, 1700>>
    /\ crop_size = <<400, 300>>
    /\ pc = "assemble"
    /\ outcome = "running"
    /\ x \in -MaxCoord..MaxCoord
    /\ y \in -MaxCoord..MaxCoord
    /\ seen_positions = {}
    /\ centering_i = 0
    /\ step = 1
    /\ dir_i = 1
    /\ sub_step = 0
    /\ i \in IF prog = "osm19" THEN ShotNumbers ELSE {0}
    /\ cropped_image_size = crop_size
    /\ cropped_dir =
          {[name |-> IF prog = "osm20" THEN ScreenshotName20(x, y)
                     ELSE ScreenshotName19(i, x, y),
            size |-> crop_size]}
    /\ events = <<>>
    /\ images = <<>>
    /\ positions = <<>>
    /\ canvas = <<>>
    /\ paste_i = 1
    /\ pastes = <<>>
    /\ output = <<>>
    /\ samples = {<<0, 0>>}
    /\ pixels = <<>>

\* a call of assemble_image_details on a directory that holds one or two
\* tiles next to the origin, with the canvas observed around its centre
PixelInit ==
    /\ prog \in Programs
    /\ steps \in {0, 2}
    /\ movement_pixels \in MovementPixels
    /\ viewport = <<1920, 1700>>
    /\ crop_size \in TileSizes
    /\ pc = "assemble"
    /\ outcome = "running"
    /\ x = 0
    /\ y = 0
    /\ seen_positions = {}
    /\ centering_i = 0
    /\ step = 1
    /\ dir_i = 1
    /\ sub_step = 0
    /\ i = 0
    /\ cropped_image_size = crop_size
    /\ \E px \in -1..1, py \in -1..1,
          d \in {<<0, 0>>, <<1, 0>>, <<0, 1>>}, s1 \in TileSizes, s2 \in TileSizes :
            cropped_dir =
                IF prog = "osm20"
                THEN {[name |-> ScreenshotName20(px, py), size |-> s1],
                      [name |-> ScreenshotName20(px + d[1], py + d[2]), size |-> s2]}
                ELSE {[name |-> ScreenshotName19(0, px, py), size |-> s1],
                      [name |-> ScreenshotName19(1, px + d[1], py + d[2]), size |-> s2]}
    /\ events = <<>>
    /\ images = <<>>
    /\ positions = <<>>
    /\ canvas = <<>>
    /\ paste_i = 1
    /\ pastes = <<>>
    /\ output = <<>>
    /\ samples = (-SampleRadius..SampleRadius) \X (-SampleRadius..SampleRadius)
    /\ pixels = <<>>

AsmNext ==
    \/ Collect20
    \/ Collect19
    \/ Paste20
    \/ Paste19
    \/ Save

AsmSpec == AsmInit /\ [][AsmNext]_vars

DirSpec == DirInit /\ [][AsmNext]_vars

NameSpec == NameInit /\ [][AsmNext]_vars

PixelSpec == PixelInit /\ [][AsmNext]_vars

-----------------------------------------------------------------------------
(* Views of the history *)

\* every pan of the run, centering pans included
Drags == SelectSeq(events, LAMBDA e : e.op = "drag")

\* the pans of the ring pass
RingDrags == SelectSeq(events, LAMBDA e : e.op = "drag" /\ e.phase = "ring")

\* the captures of the run
Shots == SelectSeq(events, LAMBDA e : e.op = "screenshot")

\* the grid position a ring pan leads to
Reached(e) == <<e.at[1] + e.dir[1], e.at[2] + e.dir[2]>>

Abs(n) == IF n < 0 THEN 0 - n ELSE n

FetchEnded == pc # "fetch"

\* the ring the n-th ring pan belongs to: rings 1..k-1 hold 2(k-1)k pans
RingOf(n) == CHOOSE k \in 1..n : 2 * (k - 1) * k < n /\ n <= 2 * k * (k + 1)

\* up, right, down, left
ExpectedDir(q) ==
    CASE q = 0 -> <<0, -1>>
      [] q = 1 -> <<1, 0>>
      [] q = 2 -> <<0, 1>>
      [] q = 3 -> <<-1, 0>>

\* a paste rectangle lies inside the canvas
Inside(p) ==
    /\ 0 <= p.offset[1]
    /\ p.offset[1] + p.size[1] <= canvas[1]
    /\ 0 <= p.offset[2]
    /\ p.offset[2] + p.size[2] <= canvas[2]

-----------------------------------------------------------------------------
(* The claims *)

\* C1: in osm20's fetch_map no grid position is captured twice: the number of
\* captures always equals the number of distinct positions captured, and a
\* step that captures does so at the current position, which is not yet in
\* seen_positions.
C1_NoDuplicateCapture ==
    /\ [](prog = "osm20" =>
            Cardinality({Shots[k].at : k \in 1..Len(Shots)}) = Len(Shots))
    /\ [][(prog = "osm20" /\ Len(Shots') > Len(Shots)) =>
            /\ Len(Shots') = Len(Shots) + 1
            /\ Shots'[Len(Shots')].at = <<x, y>>
            /\ <<x, y>> \notin seen_positions]_vars

\* C1 witness: a run of two or more rings has ended and skipped captures
C1_Witness ==
    /\ prog = "osm20"
    /\ steps >= 2
    /\ FetchEnded
    /\ Len(Shots) < Len(RingDrags)

\* C2 as stated: a finished run of osm20's fetch_map has issued exactly
\* 4*N*(N+1)/2 pans, the centering pans counted.
C2_PanCountOriginal ==
    (prog = "osm20" /\ FetchEnded) =>
        Len(Drags) = (4 * steps * (steps + 1)) \div 2

\* C2 amended: a finished run of osm20's fetch_map has issued exactly
\* 4*N*(N+1)/2 pans in the ring pass and 2*N centering pans before it.
C2_PanCount ==
    (prog = "osm20" /\ FetchEnded) =>
        /\ Len(RingDrags) = (4 * steps * (steps + 1)) \div 2
        /\ Len(Drags) = ((4 * steps * (steps + 1)) \div 2) + (2 * steps)

\* C2 witness: a run of two rings has ended after 12 ring pans and 4 centering pans
C2_Witness ==
    /\ prog = "osm20"
    /\ steps = 2
    /\ FetchEnded
    /\ Len(Drags) = 16

\* C3 as stated: for N = 1 the positions osm20's ring pass reaches are exactly
\* the four unit-distance neighbours of (0,0), none reached twice.
C3_FourNeighboursOriginal ==
    (prog = "osm20" /\ steps = 1 /\ FetchEnded) =>
        /\ {Reached(RingDrags[k]) : k \in 1..Len(RingDrags)}
               = {<<0, -1>>, <<1, 0>>, <<0, 1>>, <<-1, 0>>}
        /\ Len(RingDrags) = 4

\* C3 amended: for N = 1 the ring pass is one pan in each of the directions
\* up, right, down, left, each from where the previous pan led, so it reaches
\* (0,-1), (1,-1), (1,0), (0,0) in this order, and it captures at (0,0),
\* (0,-1), (1,-1), (1,0), each once.
C3_UnitSquare ==
    (prog = "osm20" /\ steps = 1 /\ FetchEnded) =>
        /\ [k \in 1..Len(RingDrags) |-> RingDrags[k].dir]
               = << <<0, -1>>, <<1, 0>>, <<0, 1>>, <<-1, 0>> >>
        /\ [k \in 1..Len(RingDrags) |-> Reached(RingDrags[k])]
               = << <<0, -1>>, <<1, -1>>, <<1, 0>>, <<0, 0>> >>
        /\ [k \in 1..Len(Shots) |-> Shots[k].at]
               = << <<0, 0>>, <<0, -1>>, <<1, -1>>, <<1, 0>> >>

\* C3 witness: a run of one ring has ended after its four pans
C3_Witness ==
    /\ prog = "osm20"
    /\ steps = 1
    /\ FetchEnded
    /\ Len(RingDrags) = 4

\* C4: osm20's ring pass walks rings 1, 2, ..., N in this order, and in ring k
\* pans k times up, then k times right, k times down, k times left: the n-th
\* ring pan is pan number j of ring k, in direction number j div k, where k
\* is the ring that holds n; a finished run has walked all N rings.
C4_RingOrder ==
    prog = "osm20" =>
        /\ \A n \in 1..Len(RingDrags) :
              LET k == RingOf(n)
                  j == n - (2 * (k - 1) * k) - 1
              IN  /\ k <= steps
                  /\ RingDrags[n].ring = k
                  /\ RingDrags[n].dir = ExpectedDir(j \div k)
        /\ FetchEnded => Len(RingDrags) = 2 * steps * (steps + 1)

\* C4 witness: a run of two or more rings is past its second ring
C4_Witness ==
    /\ prog = "osm20"
    /\ steps >= 2
    /\ Len(RingDrags) >= 12

\* C5: with N = 0, fetch_map issues no pan and no capture and returns
\* normally.
C5_ZeroRingsCompletes ==
    (steps = 0 /\ FetchEnded) =>
        /\ Drags = <<>>
        /\ Shots = <<>>
        /\ pc # "crashed"

\* C6: with a pan distance <= 0 no pan and no capture is ever issued.
C6_NonPositiveRejected ==
    movement_pixels <= 0 =>
        \A k \in 1..Len(events) : events[k].op \notin {"drag", "screenshot"}

\* C7: in osm20's assembler, for N >= 1 and a pan distance > 0, every pasted
\* tile of the uniform tile size at a position (x,y) with |x| <= N and
\* |y| <= N lies inside the canvas.
C7_PasteInsideCanvas ==
    (prog = "osm20" /\ steps >= 1 /\ movement_pixels > 0) =>
        \A k \in 1..Len(pastes) :
            ( /\ pastes[k].size = cropped_image_size
              /\ Abs(pastes[k].pos[1]) <= steps
              /\ Abs(pastes[k].pos[2]) <= steps ) => Inside(pastes[k])

\* C7 witness: tiles at the two ends of the x axis range are pasted
C7_Witness ==
    /\ prog = "osm20"
    /\ steps >= 1
    /\ movement_pixels > 0
    /\ \E k \in 1..Len(pastes) :
          /\ pastes[k].size = cropped_image_size
          /\ pastes[k].pos = <<steps, 0 - steps>>
          /\ Inside(pastes[k])

\* C8: in osm20's assembler the centre of the tile at (0,0) is the centre of
\* the canvas: x_offset + w//2 = canvas_width//2, y_offset + h//2 =
\* canvas_height//2.
C8_OriginTileCentred ==
    prog = "osm20" =>
        \A k \in 1..Len(pastes) :
            pastes[k].pos = <<0, 0>> =>
                /\ pastes[k].offset[1] + (pastes[k].size[1] \div 2) = canvas[1] \div 2
                /\ pastes[k].offset[2] + (pastes[k].size[2] \div 2) = canvas[2] \div 2

\* C8 witness: a tile at (0,0) whose size is not the canvas's tile size is pasted
C8_Witness ==
    /\ prog = "osm20"
    /\ \E k \in 1..Len(pastes) :
          /\ pastes[k].pos = <<0, 0>>
          /\ pastes[k].size # cropped_image_size

\* C9: in both assemblers, of two pasted tiles of the same size at (x,y) and
\* (x+1,y) the second has an x offset smaller by the pan distance and the
\* same y offset; at (x,y) and (x,y+1) the second has a y offset smaller by
\* the pan distance and the same x offset.
C9_NeighbourOffsets ==
    \A a \in 1..Len(pastes), b \in 1..Len(pastes) :
        pastes[a].size = pastes[b].size =>
            /\ pastes[b].pos = <<pastes[a].pos[1] + 1, pastes[a].pos[2]>> =>
                  /\ pastes[b].offset[1] = pastes[a].offset[1] - movement_pixels
                  /\ pastes[b].offset[2] = pastes[a].offset[2]
            /\ pastes[b].pos = <<pastes[a].pos[1], pastes[a].pos[2] + 1>> =>
                  /\ pastes[b].offset[2] = pastes[a].offset[2] - movement_pixels
                  /\ pastes[b].offset[1] = pastes[a].offset[1]

\* C9 witness: osm19 has pasted two tiles of one size, not square, at (x,y)
\* and (x+1,y)
C9_Witness ==
    /\ prog = "osm19"
    /\ movement_pixels > 0
    /\ Len(pastes) = 2
    /\ pastes[1].size = pastes[2].size
    /\ pastes[1].size[1] # pastes[1].size[2]
    /\ pastes[2].pos = <<pastes[1].pos[1] + 1, pastes[1].pos[2]>>

\* C10 as stated: osm20 pastes the tiles in the order fetch_map captured them.
C10_PasteOrderIsCaptureOrder ==
    (prog = "osm20" /\ outcome = "saved") =>
        [k \in 1..Len(pastes) |-> pastes[k].pos] = [k \in 1..Len(Shots) |-> Shots[k].at]

\* C10 amended: osm20 pastes the tiles in the ascending order of their file
\* names, compared character by character, whatever the order of capture; a
\* saved run has pasted every tile of the directory, so where two tiles
\* overlap the one whose name sorts later wins.
C10_PasteOrderIsNameOrder ==
    prog = "osm20" =>
        /\ \A a \in 1..Len(pastes), b \in 1..Len(pastes) :
              a < b => StrLess(pastes[a].name, pastes[b].name)
        /\ outcome = "saved" =>
              {pastes[k].name : k \in 1..Len(pastes)} = {f.name : f \in cropped_dir}

\* C10 witness: a run is saved whose paste order differs from its capture order
C10_Witness ==
    /\ prog = "osm20"
    /\ outcome = "saved"
    /\ Len(pastes) = Len(Shots)
    /\ \E k \in 1..Len(pastes) : pastes[k].pos # Shots[k].at

\* the run of the assembler is over
AsmEnded == pc \in {"finished", "crashed"}

\* C11: in osm20's assembler every .png file whose name is no tile name is
\* skipped and the valid tiles are assembled: the run never ends in an
\* exception, and when it ends the tiles pasted are the tiles of the
\* directory.
C11_MalformedSkipped ==
    (prog = "osm20" /\ AsmEnded) =>
        /\ pc # "crashed"
        /\ {pastes[k].name : k \in 1..Len(pastes)}
               = {f.name : f \in cropped_dir} \cap TileNames("osm20")

\* C12: when every file of the directory is skipped (the directory is empty,
\* or holds only files that are no .png and .png files whose fields are no
\* integers), osm20's assembler reports it and ends with no canvas, no paste
\* and no output file.
C12_NothingToAssemble ==
    ( /\ prog = "osm20"
      /\ pc # "assemble"
      /\ \A f \in cropped_dir : f.name \in OddNames ) =>
        /\ pc = "finished"
        /\ outcome = "no valid images"
        /\ canvas = <<>>
        /\ pixels = <<>>
        /\ pastes = <<>>
        /\ output = <<>>

\* C12 witness: the assembler has ended on a directory of one file that is no
\* .png and one .png whose fields are no integers
C12_Witness ==
    /\ prog = "osm20"
    /\ {f.name : f \in cropped_dir} = {notes_txt, screenshot_a_b_png}
    /\ outcome = "no valid images"

\* the file name fetch_map writes for a capture number n at (px, py)
NameFor(p, n, px, py) ==
    IF p = "osm20" THEN ScreenshotName20(px, py) ELSE ScreenshotName19(n, px, py)

\* C13: the position the assembler parses from the file name fetch_map wrote
\* for a capture at (x, y) is (x, y), for negative, zero and positive
\* coordinates, in osm20 and in osm19; and no other position gives the same
\* file name.
C13_NameRoundTrip ==
    /\ pc # "assemble" =>
          /\ pc # "crashed"
          /\ positions = << <<x, y>> >>
    /\ \A qx \in -MaxCoord..MaxCoord, qy \in -MaxCoord..MaxCoord :
          <<qx, qy>> # <<x, y>> =>
              \A f \in cropped_dir : f.name # NameFor(prog, i, qx, qy)

\* C13 witness: osm19 has pasted the tile of a capture at two negative
\* coordinates, one of two digits, with a capture number of three digits
C13_Witness ==
    /\ prog = "osm19"
    /\ x < 0
    /\ y < -9
    /\ i > 99
    /\ Len(pastes) = 1
    /\ pastes[1].pos = <<x, y>>

\* the displacement of the view after the first k calls of the run: the sum
\* of (dx * distance, dy * distance) over the pans among them
RECURSIVE DisplacementAfter(_)
DisplacementAfter(k) ==
    IF k = 0 THEN <<0, 0>>
    ELSE LET e == events[k]
             before == DisplacementAfter(k - 1)
         IN  IF e.op = "drag"
             THEN <<before[1] + (e.dir[1] * e.dist), before[2] + (e.dir[2] * e.dist)>>
             ELSE before

\* the displacements at which the captures of the run were taken
ShotDisplacements ==
    {DisplacementAfter(k) : k \in {n \in 1..Len(events) : events[n].op = "screenshot"}}

SetMin(S) == CHOOSE a \in S : \A b \in S : a <= b
SetMax(S) == CHOOSE a \in S : \A b \in S : a >= b

\* C14: in a run of osm20's fetch_map with two rings (or more), ring 2 pans
\* from a position that ring 1 captured, and takes no capture there.
C14_RingTwoRevisits ==
    (prog = "osm20" /\ steps >= 2 /\ FetchEnded) =>
        \E k \in 1..Len(RingDrags) :
            /\ RingDrags[k].ring = 2
            /\ \E n \in 1..Len(Shots) :
                  Shots[n].ring = 1 /\ Shots[n].at = RingDrags[k].at
            /\ \A n \in 1..Len(Shots) :
                  Shots[n].at = RingDrags[k].at => Shots[n].ring # 2

\* C14 witness: a run of exactly two rings has ended with 12 ring pans and 9 captures
C14_Witness ==
    /\ prog = "osm20"
    /\ steps = 2
    /\ FetchEnded
    /\ Len(RingDrags) = 12
    /\ Len(Shots) = 9

\* C15: for N >= 1 and an even pan distance, the bounding box of the
\* displacements at which osm20's fetch_map captures is symmetric around the
\* start, in x and in y.
C15_CentredRegion ==
    ( /\ prog = "osm20"
      /\ steps >= 1
      /\ movement_pixels > 0
      /\ movement_pixels % 2 = 0
      /\ FetchEnded ) =>
        LET xs == {d[1] : d \in ShotDisplacements}
            ys == {d[2] : d \in ShotDisplacements}
        IN  /\ SetMin(xs) + SetMax(xs) = 0
            /\ SetMin(ys) + SetMax(ys) = 0

\* C16: a centering round of osm20's fetch_map leaves the grid position at
\* (0,0), seen_positions empty and the directory empty, and takes no
\* capture; the first capture of a run is taken at (0,0).
C16_CenteringFrame ==
    /\ [][( /\ prog = "osm20"
            /\ Len(Drags') > Len(Drags)
            /\ Drags'[Len(Drags')].phase = "centering" ) =>
              /\ <<x, y>> = <<0, 0>>
              /\ <<x', y'>> = <<0, 0>>
              /\ seen_positions = {}
              /\ seen_positions' = {}
              /\ Shots' = <<>>
              /\ cropped_dir' = {}
              /\ cropped_image_size' = <<>>]_vars
    /\ []((prog = "osm20" /\ Shots # <<>>) => Shots[1].at = <<0, 0>>)

\* C16 witness: after the centering pans of two or more rounds a capture is taken
C16_Witness ==
    /\ prog = "osm20"
    /\ steps >= 2
    /\ Len(Drags) > Len(RingDrags)
    /\ Len(Shots) = 1

\* C17: every ring pan, in osm20 and in osm19 and for every viewport, drags
\* the mouse by exactly (dx * movement_pixels, dy * movement_pixels).
C17_ExactPan ==
    \A k \in 1..Len(RingDrags) :
        RingDrags[k].move = << RingDrags[k].dir[1] * movement_pixels,
                               RingDrags[k].dir[2] * movement_pixels >>

\* C18: osm19's assembler pastes a tile at (x, y) of size (w, h) at
\* offsetX = centerX - x*panDistance - w//2, offsetY = centerY -
\* y*panDistance - h//2, as osm20's does, whatever the tile size.
C18_Osm19SpecOffsets ==
    prog = "osm19" =>
        \A k \in 1..Len(pastes) :
            pastes[k].offset =
                << (canvas[1] \div 2) - (pastes[k].pos[1] * movement_pixels)
                       - (pastes[k].size[1] \div 2),
                   (canvas[2] \div 2) - (pastes[k].pos[2] * movement_pixels)
                       - (pastes[k].size[2] \div 2) >>

\* C19: every tile a run of osm19 with N >= 1 and a pan distance > 0 has
\* captured is pasted inside osm19's canvas.
C19_Osm19PasteInsideCanvas ==
    (prog = "osm19" /\ steps >= 1 /\ movement_pixels > 0) =>
        \A k \in 1..Len(pastes) : Inside(pastes[k])

\* the pastes whose rectangle holds the canvas pixel q
Covering(q) ==
    {k \in 1..Len(pastes) :
        /\ q[1] - pastes[k].offset[1] \in 0..(pastes[k].size[1] - 1)
        /\ q[2] - pastes[k].offset[2] \in 0..(pastes[k].size[2] - 1)}

\* C20: when osm20's assembler has saved, every observed canvas pixel that a
\* pasted tile covers holds the pixel of the last pasted tile that covers
\* it, and every other observed pixel is still empty.
C20_PlainOverwrite ==
    (prog = "osm20" /\ outcome = "saved") =>
        \A s \in samples :
            LET q == <<(canvas[1] \div 2) + s[1], (canvas[2] \div 2) + s[2]>>
                last == SetMax(Covering(q))
            IN  IF Covering(q) = {}
                THEN pixels[s] = <<>>
                ELSE pixels[s] = << pastes[last].name,
                                    q[1] - pastes[last].offset[1],
                                    q[2] - pastes[last].offset[2] >>

\* C20 witness: a saved canvas with a pixel that two pasted tiles cover and a
\* pixel that none covers
C20_Witness ==
    /\ prog = "osm20"
    /\ outcome = "saved"
    /\ \E s \in samples :
          Cardinality(Covering(<<(canvas[1] \div 2) + s[1], (canvas[2] \div 2) + s[2]>>)) = 2
    /\ \E s \in samples :
          Covering(<<(canvas[1] \div 2) + s[1], (canvas[2] \div 2) + s[2]>>) = {}

\* the calls the step just taken has made
NewEvents == SubSeq(events', Len(events) + 1, Len(events'))

\* C21: in osm20's fetch_map no screenshot is taken right after a pan:
\* between any drag and any later screenshot a wait of pan_wait_seconds
\* seconds has been made, the call just before a screenshot is never a drag,
\* and a traversal step that captures makes its screenshot before its drag,
\* which its wait follows at once.
C21_WaitBeforeScreenshot ==
    /\ [](prog = "osm20" =>
            /\ \A d \in 1..Len(events), s \in 1..Len(events) :
                  (d < s /\ events[d].op = "drag" /\ events[s].op = "screenshot") =>
                      \E w \in (d + 1)..(s - 1) :
                          /\ events[w].op = "wait"
                          /\ events[w].secs = pan_wait_seconds
            /\ \A s \in 2..Len(events) :
                  events[s].op = "screenshot" => events[s - 1].op # "drag")
    /\ [][prog = "osm20" =>
            /\ \A a \in 1..Len(NewEvents), b \in 1..Len(NewEvents) :
                  (NewEvents[a].op = "screenshot" /\ NewEvents[b].op = "drag") => a < b
            /\ \A a \in 1..Len(NewEvents) :
                  NewEvents[a].op = "drag" =>
                      /\ a < Len(NewEvents)
                      /\ NewEvents[a + 1].op = "wait"]_vars

\* C21 witness: a capture has been taken after the pans of the centering
\* rounds and of the first ring step
C21_Witness ==
    /\ prog = "osm20"
    /\ Len(Drags) > Len(RingDrags)
    /\ Len(RingDrags) >= 1
    /\ Len(Shots) >= 2
    /\ events[Len(events)].op = "wait"

\* the number of ring pans made when ring k is complete: 4 * (1 + ... + k)
PansThrough(k) == 2 * k * (k + 1)

\* C22: in fetch_map, of osm20 and of osm19, the grid position is (0,0) each
\* time a ring is complete: every ring k in 1..N starts with a pan from (0,0),
\* its 4*k-th pan leads back to (0,0), the position is (0,0) whenever the
\* loops stand at the start of a ring, and it is (0,0) when the traversal
\* has ended.
C22_RingEndsAtOrigin ==
    /\ (pc = "fetch" /\ dir_i = 1 /\ sub_step = 0) => <<x, y>> = <<0, 0>>
    /\ FetchEnded => <<x, y>> = <<0, 0>>
    /\ \A k \in 1..steps :
          /\ Len(RingDrags) > PansThrough(k - 1) =>
                /\ RingDrags[PansThrough(k - 1) + 1].ring = k
                /\ RingDrags[PansThrough(k - 1) + 1].at = <<0, 0>>
          /\ Len(RingDrags) >= PansThrough(k) =>
                /\ RingDrags[PansThrough(k)].ring = k
                /\ Reached(RingDrags[PansThrough(k)]) = <<0, 0>>

\* C22 witness: osm19 has ended a traversal of two or more rings, which left
\* the origin in between
C22_Witness ==
    /\ prog = "osm19"
    /\ steps >= 2
    /\ FetchEnded
    /\ Len(RingDrags) = PansThrough(steps)
    /\ \E k \in 1..Len(RingDrags) : Reached(RingDrags[k]) = <<2, -2>>
    /\ <<x, y>> = <<0, 0>>

\* the grid positions at which the run has captured
Captured == {Shots[k].at : k \in 1..Len(Shots)}

\* the grid positions the ring pans of the run have led to
ReachedSet == {Reached(RingDrags[k]) : k \in 1..Len(RingDrags)}

\* the square of (N+1) x (N+1) positions right of and above the origin
Quadrant(n) == {<<a, 0 - b>> : a \in 0..n, b \in 0..n}

\* C23: for every N >= 1, when osm20's fetch_map has ended the grid positions
\* captured are exactly the (i,-j) with 0 <= i <= N and 0 <= j <= N, each
\* captured once and each with its own file in the directory, (N+1)^2 in
\* all; every position a pan has led to has been captured, and the largest
\* absolute coordinate reached is N.
C23_CapturedQuadrant ==
    (prog = "osm20" /\ steps >= 1 /\ FetchEnded) =>
        /\ Captured = Quadrant(steps)
        /\ Len(Shots) = (steps + 1) * (steps + 1)
        /\ {f.name : f \in cropped_dir} = {ScreenshotName20(q[1], q[2]) : q \in Quadrant(steps)}
        /\ Cardinality(cropped_dir) = (steps + 1) * (steps + 1)
        /\ ReachedSet \subseteq Captured
        /\ SetMax({Abs(q[1]) : q \in ReachedSet} \cup {Abs(q[2]) : q \in ReachedSet}) = steps

\* C23 witness: a traversal of three or more rings has ended with a capture
\* at the far corner and at a position inside the square that only its
\* second ring passes
C23_Witness ==
    /\ prog = "osm20"
    /\ steps >= 3
    /\ FetchEnded
    /\ <<steps, 0 - steps>> \in Captured
    /\ <<1, -2>> \in Captured
    /\ Len(Shots) < Len(RingDrags)

=============================================================================
